---- MODULE Spec2Model ----
(***************************************************************************)
(* Model of src/crawler.js: the site crawler that builds a page tree with  *)
(* a visited-URL registry, records first-seen cookies and iframes, and     *)
(* writes crawl.json, cookies.json and iframes.json.                       *)
(*                                                                         *)
(* JavaScript objects are modelled as a heap: a PageNode is a heap cell    *)
(* (its identity is its index), a children array is an array cell, and a  *)
(* field that holds an object holds its index.  The recursion of crawl is *)
(* an explicit stack of frames.  To compare two runs of the program, a    *)
(* run can be followed by a second one over the same web and the same     *)
(* output directory.                                                       *)
(***************************************************************************)
EXTENDS Integers, Sequences, FiniteSets, TLC

VARIABLES
  run,            \* the current run of the program: the first or the second
  pc,             \* position of the async main function (lines 200-230)
  error,          \* the exception that left main, if any
  depthEnv,       \* process.env.DEPTH
  maxDepth,       \* line 50
  crawledPages,   \* line 47: url -> node (0: no entry)
  crawledCookies, \* line 48: cookie name -> record
  crawledIframes, \* line 49: iframe src -> record
  heap,           \* PageNode objects: sequence of [url, title, children]
  arrs,           \* array objects: arrs[k] is the array created by the fetch of node k
  stack,          \* active calls of crawl, innermost last
  dirExists,      \* OUT_DIR exists
  files,          \* OUT_DIR: file name -> content
  web,            \* what the browser has returned for each url so far
  fetchCount,     \* history: url -> number of newPage/goto in this run
  fetchOrder,     \* history: urls in the order their fetch completed in this run
  written         \* history: run -> tree serialized into crawl.json by that run

vars == <<run, pc, error, depthEnv, maxDepth, crawledPages, crawledCookies,
          crawledIframes, heap, arrs, stack, dirExists, files, web,
          fetchCount, fetchOrder, written>>

(* Bounds of the model *)

MaxDepthEnv == 3      \* largest DEPTH configured in the environment
MaxLinks == 2         \* anchors on a page, before filtering
MaxFrames == 1        \* iframes on a page, before filtering

(* Program constants *)

DefaultDepth == 2     \* line 44

URL == "a"            \* line 43: the seed

Urls == {"a", "b", "c", "d"}         \* same-origin pages of the site
Hrefs == Urls \cup {"ext", "doc.pdf"} \* what an anchor may point to
FrameSrcs == {"f"}
CookieNames == {"session"}
JsonFiles == {"crawl.json", "cookies.json", "iframes.json"}
FileNames == JsonFiles \cup {"other"}

Undefined == "undefined"  \* a property that is not set
Absent == [run |-> 0, state |-> "absent"]

TitleOf(u) == "title of " \o u

\* the value the site gives its cookie on page u
CookieValue(u) == "set on " \o u

NoError == [kind |-> "none", at |-> ""]

\* The anchors of the site: page d is a page without anchors that only page c
\* links to; every other page may link anywhere else.
HrefsOn(u) ==
  CASE u = "c" -> Hrefs
    [] u = "d" -> {}
    [] OTHER -> Hrefs \ {"d"}

(* Helpers *)

SeqsUpTo(S, n) == UNION {[1..k -> S] : k \in 0..n}

Range(s) == {s[i] : i \in DOMAIN s}

RECURSIVE Dedup(_)
\* Array.from(new Set(xs)): first occurrences, in order
Dedup(xs) ==
  IF xs = <<>> THEN <<>>
  ELSE LET front == Dedup(SubSeq(xs, 1, Len(xs) - 1))
           last == xs[Len(xs)]
       IN IF last \in Range(front) THEN front ELSE Append(front, last)

Origin(h) == IF h = "ext" THEN "other" ELSE "site"

\* line 94: the href contains one of the excluded patterns
ExcludedPattern(h) == h = "doc.pdf"


(* ---- the environment: DEPTH (line 44) ---- *)

\* The values process.env.DEPTH takes: unset, not a number, or a decimal integer.
DepthEnvs == {"unset", "abc"} \cup {ToString(n) : n \in -1..MaxDepthEnv}

\* parseInt(str): nan is TRUE for undefined and for text that starts with no digit.
parseInt(str) ==
  IF str \in {"unset", "abc"} THEN [nan |-> TRUE, val |-> 0]
  ELSE [nan |-> FALSE, val |-> CHOOSE n \in -1..MaxDepthEnv : ToString(n) = str]

\* line 44: parseInt(process.env.DEPTH) || 2  (NaN and 0 are falsy)
DEPTH(str) ==
  LET n == parseInt(str)
  IN IF n.nan \/ n.val = 0 THEN DefaultDepth ELSE n.val

(* ---- functions evaluated in the page (lines 78-134) ---- *)

\* lines 93-104, over the hrefs of the anchors of the page at location
collectAllSameOriginAnchorsDeep(hrefs, location) ==
  LET keep(h) == /\ ~ExcludedPattern(h)
                 /\ h # location
                 /\ Origin(location) = Origin(h)
  IN Dedup(SelectSeq(hrefs, keep))

\* lines 128-133, over the src of the iframes of the page at location
findAllIframes(srcs, location) ==
  LET keep(x) == x # location
  IN Dedup(SelectSeq(srcs, keep))

\* Everything a fetch of url u can return: the title, the two evaluated lists
\* and the cookies of Network.getAllCookies (lines 162-181).
Responses(u) ==
  { [ title   |-> TitleOf(u),
      links   |-> collectAllSameOriginAnchorsDeep(hrefs, u),
      iframes |-> findAllIframes(srcs, u),
      cookies |-> cookies ] :
      hrefs \in SeqsUpTo(HrefsOn(u), MaxLinks),
      srcs \in SeqsUpTo(FrameSrcs \cup {u}, MaxFrames),
      cookies \in {<<>>} \cup {<<[name |-> n, value |-> CookieValue(u)]>> :
                                 n \in CookieNames} }

NotFetched == [title |-> Undefined, links |-> <<>>, iframes |-> <<>>, cookies |-> <<>>]

\* What a fetch of url u returns in this state: the browser returns for a url
\* what it returned before.
Returned(u) == IF web[u] # NotFetched THEN {web[u]} ELSE Responses(u)

(* ---- the heap ---- *)

Nodes == DOMAIN heap

\* {url}: lines 169 and 207
Stub(u) == [url |-> u, title |-> Undefined, children |-> 0]

\* the elements of node n's children array; none when children is not set
Kids(n) == IF heap[n].children = 0 THEN <<>> ELSE arrs[heap[n].children]

root == 1

RECURSIVE Below(_, _)
\* the nodes reachable from the nodes S by one or more child hops
Below(S, seen) ==
  LET next == UNION {Range(Kids(n)) : n \in S} \ seen
  IN IF next = {} THEN seen ELSE Below(next, seen \cup next)

Descendants(n) == Below({n}, {})

\* JSON.stringify throws "Converting circular structure" on such a root
Circular(n) == \E m \in {n} \cup Descendants(n) : m \in Descendants(m)

RECURSIVE Stringify(_)
\* JSON.stringify(node) (line 224) as a value: a property that is not set is left out
Stringify(n) ==
  [ url   |-> heap[n].url,
    title |-> heap[n].title,
    stub  |-> heap[n].children = 0,
    kids  |-> [i \in DOMAIN Kids(n) |-> Stringify(Kids(n)[i])] ]

(* ---- Map (lines 47-49) ---- *)

EmptyMap == [k \in {} |-> 0]

\* a Map that forgets what it holds
hasNothing(m, k) == FALSE

\* Map.prototype.has
has(m, k) == k \in DOMAIN m

get(m, k) == m[k]

set(m, k, v) == [x \in DOMAIN m \cup {k} |-> IF x = k THEN v ELSE m[x]]

(* ---- the state after construction ---- *)

\* The output directory before the first run: missing, or left by earlier use
\* with any of its files (run 0 wrote them).
StaleDirs ==
  { [f \in FileNames |-> IF f \in S THEN [run |-> 0, state |-> "full"] ELSE Absent] :
      S \in SUBSET FileNames }

Init ==
  /\ run = 1
  /\ pc = "mkdir"
  /\ error = NoError
  /\ depthEnv \in DepthEnvs
  /\ maxDepth = DEPTH(depthEnv)
  /\ crawledPages = EmptyMap
  /\ crawledCookies = EmptyMap
  /\ crawledIframes = EmptyMap
  /\ heap = <<>>
  /\ arrs = <<>>
  /\ stack = <<>>
  /\ dirExists \in BOOLEAN
  /\ files \in StaleDirs
  /\ (~dirExists => files = [f \in FileNames |-> Absent])
  /\ web = [u \in Urls |-> NotFetched]
  /\ fetchCount = [u \in Urls |-> 0]
  /\ fetchOrder = <<>>
  /\ written = <<>>

crawlVars == <<crawledPages, crawledCookies, crawledIframes, heap, arrs, stack,
               web, fetchCount, fetchOrder>>
config == <<run, depthEnv, maxDepth>>
state == <<crawledPages, crawledCookies, crawledIframes, heap, arrs, web,
           fetchCount, fetchOrder>>

(* ---- main (lines 200-230) ---- *)

\* an exception leaves the async function (nothing in lines 200-230 catches
\* it): every pending call is abandoned and nothing after it runs
Throw(kind, at) ==
  /\ pc' = "aborted"
  /\ error' = [kind |-> kind, at |-> at]
  /\ stack' = <<>>

\* line 202: mkdirSync(OUT_DIR)
Mkdir ==
  /\ pc = "mkdir"
  /\ pc' = "del"
  /\ dirExists' = TRUE
  /\ UNCHANGED <<config, error, crawlVars, files, written>>

\* lines 65-68: an error other than EEXIST is rethrown
MkdirFail ==
  /\ pc = "mkdir"
  /\ ~dirExists
  /\ Throw("mkdir", "")
  /\ UNCHANGED <<config, state, dirExists, files, written>>

\* a cleanup that removes nothing
delNothing(fs) == fs

\* line 203: del([OUT_DIR/*]) removes every entry of the directory
del(fs) == [f \in FileNames |-> Absent]

Del ==
  /\ pc = "del"
  /\ pc' = "launch"
  /\ files' = del(files)
  /\ UNCHANGED <<config, error, crawlVars, dirExists, written>>

\* line 203 rejects
DelFail ==
  /\ pc = "del"
  /\ Throw("del", "")
  /\ UNCHANGED <<config, state, dirExists, files, written>>

\* line 205
Launch ==
  /\ pc = "launch"
  /\ pc' = "root"
  /\ UNCHANGED <<config, error, crawlVars, dirExists, files, written>>

\* line 205 rejects
LaunchFail ==
  /\ pc = "launch"
  /\ Throw("launch", "")
  /\ UNCHANGED <<config, state, dirExists, files, written>>

\* lines 207-208: root = {url: URL}; crawl(browser, root) with depth = 0
StartCrawl ==
  /\ pc = "root"
  /\ pc' = "crawl"
  /\ heap' = <<Stub(URL)>>
  /\ arrs' = << <<>> >>
  /\ stack' = <<[node |-> root, depth |-> 0, at |-> "enter", i |-> 1]>>
  /\ UNCHANGED <<config, error, crawledPages, crawledCookies, crawledIframes, web,
                 fetchCount, fetchOrder, dirExists, files, written>>

(* ---- crawl (lines 142-198) ---- *)

Top == stack[Len(stack)]

Return == stack' = SubSeq(stack, 1, Len(stack) - 1)

InCrawl(at) == /\ pc = "crawl"
               /\ stack # <<>>
               /\ Top.at = at

\* no cutoff
NoCutoff(depth) == FALSE

\* a cutoff that lets one more level through
PastMaxDepthByTwo(depth) == depth > maxDepth + 1

\* line 143
PastMaxDepth(depth) == depth > maxDepth

\* lines 143-145: if (depth > maxDepth) return
CrawlCutoff ==
  /\ InCrawl("enter")
  /\ PastMaxDepth(Top.depth)
  /\ Return
  /\ UNCHANGED <<config, pc, error, state, dirExists, files, written>>

RECURSIVE Backfill(_, _)
\* lines 154-157: page.children.forEach(c => c.title = item ? item.title : '')
Backfill(h, cs) ==
  IF cs = <<>> THEN h
  ELSE LET c == Head(cs)
           t == IF has(crawledPages, h[c].url)
                THEN h[get(crawledPages, h[c].url)].title
                ELSE ""
       IN Backfill([h EXCEPT ![c].title = t], Tail(cs))

\* lines 150-157: the heap after the memoized branch has run on node n
Reuse(h, n) ==
  LET item == get(crawledPages, h[n].url)
      h1 == [h EXCEPT ![n].title = h[item].title,
                      ![n].children = h[item].children]
  IN Backfill(h1, arrs[h1[n].children])

\* a memoized branch without its return: the call goes on to the loop of line 195
ReuseFallThrough == stack' = [stack EXCEPT ![Len(stack)].at = "loop"]

\* line 158: return
ReuseReturn == Return

\* lines 148-158
CrawlReuse ==
  /\ InCrawl("enter")
  /\ ~PastMaxDepth(Top.depth)
  /\ has(crawledPages, heap[Top.node].url)
  /\ heap' = Reuse(heap, Top.node)
  /\ ReuseReturn
  /\ UNCHANGED <<config, pc, error, crawledPages, crawledCookies, crawledIframes,
                 arrs, web, fetchCount, fetchOrder, dirExists, files, written>>

\* lines 160-163: browser.newPage() and newPage.goto(page.url) are issued
CrawlLoad ==
  /\ InCrawl("enter")
  /\ ~PastMaxDepth(Top.depth)
  /\ ~has(crawledPages, heap[Top.node].url)
  /\ stack' = [stack EXCEPT ![Len(stack)].at = "goto"]
  /\ fetchCount' = [fetchCount EXCEPT ![heap[Top.node].url] = @ + 1]
  /\ UNCHANGED <<config, pc, error, crawledPages, crawledCookies, crawledIframes,
                 heap, arrs, web, fetchOrder, dirExists, files, written>>

\* the rejection of goto caught in crawl: the node stays a stub, crawl returns
NavigationErrorCaught(url) ==
  /\ pc' = pc
  /\ error' = [kind |-> "goto", at |-> url]
  /\ stack' = SubSeq(stack, 1, Len(stack) - 1)

\* lines 162-163 in a try-less async function: the rejection of goto leaves crawl
NavigationError(url) == Throw("goto", url)

\* line 163 rejects (the navigation fails)
GotoFail ==
  /\ InCrawl("goto")
  /\ NavigationError(heap[Top.node].url)
  /\ UNCHANGED <<config, state, dirExists, files, written>>

\* the anchors as evaluated, the seed not taken out
KeepSeed(anchors) == anchors

\* line 166: anchors.filter(a => a !== URL)
FilterSeed(anchors) == SelectSeq(anchors, LAMBDA a : a # URL)

\* the orders of anchors
AnyOrder(anchors) ==
  {[i \in DOMAIN anchors |-> anchors[f[i]]] :
     f \in {g \in [DOMAIN anchors -> DOMAIN anchors] :
              \A i, j \in DOMAIN anchors : g[i] = g[j] => i = j}}

\* line 169: the urls of page.children, as anchors.map(url => ({url})) can lay
\* them out: Array.prototype.map keeps the order of anchors
ChildUrls(anchors) == {anchors}

RECURSIVE RecordIframesLastWins(_, _, _)
\* the iframe registry without the has() test of line 173
RecordIframesLastWins(m, iframes, url) ==
  IF iframes = <<>> THEN m
  ELSE RecordIframesLastWins(set(m, Head(iframes), [src |-> Head(iframes), firstFound |-> url]),
                             Tail(iframes), url)

RECURSIVE RecordIframes(_, _, _)
\* lines 172-179
RecordIframes(m, iframes, url) ==
  IF iframes = <<>> THEN m
  ELSE LET iframe == Head(iframes)
           m1 == IF ~has(m, iframe)
                 THEN set(m, iframe, [src |-> iframe, firstFound |-> url])
                 ELSE m
       IN RecordIframes(m1, Tail(iframes), url)

RECURSIVE RecordCookiesLastWins(_, _, _)
\* the cookie registry without the has() test of line 183
RecordCookiesLastWins(m, cookies, url) ==
  IF cookies = <<>> THEN m
  ELSE LET cookie == Head(cookies)
       IN RecordCookiesLastWins(
            set(m, cookie.name, [name |-> cookie.name, value |-> cookie.value,
                                 firstFound |-> url]),
            Tail(cookies), url)

RECURSIVE RecordCookies(_, _, _)
\* lines 182-187
RecordCookies(m, cookies, url) ==
  IF cookies = <<>> THEN m
  ELSE LET cookie == Head(cookies)
           m1 == IF ~has(m, cookie.name)
                 THEN set(m, cookie.name,
                          [name |-> cookie.name, value |-> cookie.value,
                           firstFound |-> url])
                 ELSE m
       IN RecordCookies(m1, Tail(cookies), url)

\* lines 163-191: the page loads; title, children, iframes, cookies and the
\* registry entry are written, the page is closed and the loop of line 195 begins.
\* The browser returns for a url what it returned before.
FetchOk ==
  /\ InCrawl("goto")
  /\ LET n == Top.node
         u == heap[n].url
     IN \E resp \in Returned(u) :
          /\ \E anchors \in ChildUrls(FilterSeed(resp.links)) :
             LET base == Len(heap)
             IN /\ heap' = [heap EXCEPT ![n].title = resp.title, ![n].children = n]
                             \o [i \in 1..Len(anchors) |-> Stub(anchors[i])]
                /\ arrs' = [arrs EXCEPT ![n] = [i \in 1..Len(anchors) |-> base + i]]
                             \o [i \in 1..Len(anchors) |-> <<>>]
          /\ crawledIframes' = RecordIframes(crawledIframes, resp.iframes, u)
          /\ crawledCookies' = RecordCookies(crawledCookies, resp.cookies, u)
          /\ crawledPages' = set(crawledPages, u, n)
          /\ web' = [web EXCEPT ![u] = resp]
          /\ fetchOrder' = Append(fetchOrder, u)
  /\ stack' = [stack EXCEPT ![Len(stack)].at = "loop"]
  /\ UNCHANGED <<config, pc, error, fetchCount, dirExists, files, written>>

\* a loop that takes the children from the last to the first
ChildAtReversed(n, i) == Kids(n)[Len(Kids(n)) + 1 - i]

\* line 195: the i-th childPage of for (const childPage of page.children)
ChildAt(n, i) == Kids(n)[i]

\* lines 195-196: the next child is crawled at depth + 1
CrawlChild ==
  /\ InCrawl("loop")
  /\ Top.i <= Len(Kids(Top.node))
  /\ stack' = Append([stack EXCEPT ![Len(stack)].i = @ + 1],
                     [node |-> ChildAt(Top.node, Top.i), depth |-> Top.depth + 1,
                      at |-> "enter", i |-> 1])
  /\ UNCHANGED <<config, pc, error, state, dirExists, files, written>>

\* lines 195-198: no child is left
CrawlReturn ==
  /\ InCrawl("loop")
  /\ Top.i > Len(Kids(Top.node))
  /\ Return
  /\ UNCHANGED <<config, pc, error, state, dirExists, files, written>>

(* ---- main, after the traversal (lines 210-228) ---- *)

\* lines 208-222: crawl(browser, root) has returned; obj and objif are built
Collect ==
  /\ pc = "crawl"
  /\ stack = <<>>
  /\ pc' = "crawl.json"
  /\ UNCHANGED <<config, error, crawlVars, dirExists, files, written>>

\* only crawl.json is written
NextWriteNone(f) == "close"

\* the file written after f (lines 224-226)
NextWrite(f) ==
  CASE f = "crawl.json" -> "cookies.json"
    [] f = "cookies.json" -> "iframes.json"
    [] f = "iframes.json" -> "close"

\* line 224: JSON.stringify(root) throws on a circular structure, before writeFile
StringifyFail ==
  /\ pc = "crawl.json"
  /\ Circular(root)
  /\ Throw("stringify", "")
  /\ UNCHANGED <<config, state, dirExists, files, written>>

Serializable(f) == f = "crawl.json" => ~Circular(root)

\* lines 224-226: one writeFile resolves
WriteFile ==
  /\ pc \in JsonFiles
  /\ Serializable(pc)
  /\ files' = [files EXCEPT ![pc] = [run |-> run, state |-> "full"]]
  /\ written' = IF pc = "crawl.json"
                THEN Append(written, [run |-> run, tree |-> Stringify(root)])
                ELSE written
  /\ pc' = NextWrite(pc)
  /\ UNCHANGED <<config, error, crawlVars, dirExists>>

\* lines 224-226: one writeFile rejects, before it created the file or after
WriteFail ==
  /\ pc \in JsonFiles
  /\ Serializable(pc)
  /\ \/ files' = files
     \/ files' = [files EXCEPT ![pc] = [run |-> run, state |-> "partial"]]
  /\ Throw("write", pc)
  /\ UNCHANGED <<config, state, dirExists, written>>

\* line 228
Close ==
  /\ pc = "close"
  /\ pc' = "done"
  /\ UNCHANGED <<config, error, crawlVars, dirExists, files, written>>

\* line 228 rejects
CloseFail ==
  /\ pc = "close"
  /\ Throw("close", "")
  /\ UNCHANGED <<config, state, dirExists, files, written>>

\* The program is started again, with the same environment, on the same web
\* and output directory: lines 43-50 run anew.
Restart ==
  /\ pc \in {"done", "aborted"}
  /\ run = 1
  /\ run' = run + 1
  /\ pc' = "mkdir"
  /\ error' = NoError
  /\ crawledPages' = EmptyMap
  /\ crawledCookies' = EmptyMap
  /\ crawledIframes' = EmptyMap
  /\ heap' = <<>>
  /\ arrs' = <<>>
  /\ stack' = <<>>
  /\ fetchCount' = [u \in Urls |-> 0]
  /\ fetchOrder' = <<>>
  /\ UNCHANGED <<depthEnv, maxDepth, dirExists, files, web, written>>

\* the steps of the program when nothing outside it fails
Step ==
  \/ Mkdir \/ Del \/ Launch \/ StartCrawl
  \/ CrawlCutoff \/ CrawlReuse \/ CrawlLoad \/ FetchOk
  \/ CrawlChild \/ CrawlReturn
  \/ Collect \/ StringifyFail \/ WriteFile \/ Close

\* the file system, the browser or the navigation fails
Fault == MkdirFail \/ DelFail \/ LaunchFail \/ GotoFail \/ WriteFail \/ CloseFail

Next == Step \/ Fault

\* one run of the program
Spec == Init /\ [][Next]_vars

\* DEPTH is set to a depth from 1 on
InitRuns == Init /\ depthEnv \in {ToString(n) : n \in 1..MaxDepthEnv}

NextRuns == Step \/ Restart

\* two runs of the program, one after the other, over a web and a
\* file system that do not fail
SpecRuns == InitRuns /\ [][NextRuns]_vars

\* DEPTH is set to a number
InitFair == Init /\ depthEnv \in {ToString(n) : n \in -1..MaxDepthEnv}

\* one run in which nothing outside the program fails and the program goes on
\* whenever it can
SpecFair == InitFair /\ [][Step]_vars /\ WF_vars(Step)

(* ---- properties ---- *)

\* the nodes of the tree under the root
InTree == IF heap = <<>> THEN {} ELSE {root} \cup Descendants(root)

\* the urls whose fetch has been issued and has not completed
InFlight == {heap[stack[k].node].url : k \in {j \in DOMAIN stack : stack[j].at = "goto"}}

\* C1: at most one fetch per url in a run, however often the url is a child in
\* the tree, and a url that is a key of crawledPages is not fetched again: its
\* one fetch is the completed one, and no fetch of it is in flight.
AtMostOneFetch ==
  \A u \in Urls :
    /\ fetchCount[u] <= 1
    /\ u \in DOMAIN crawledPages => fetchCount[u] = 1 /\ u \notin InFlight

\* a finished run in which some url is a child at two places of the tree
C1Witness ==
  /\ pc = "done"
  /\ \E n, m \in InTree \ {root} :
       /\ n # m
       /\ heap[n].url = heap[m].url
       /\ fetchCount[heap[n].url] = 1

RECURSIVE Level(_)
\* the nodes located k child hops below the root
Level(k) == IF k = 0 THEN {root} ELSE UNION {Range(Kids(n)) : n \in Level(k - 1)}

\* the node whose fetch created node n as a child stub (line 169)
Creator(n) == CHOOSE k \in Nodes : n \in Range(arrs[k])

RECURSIVE CallDepth(_)
\* the depth crawl is invoked with on node n: 0 for the root (line 208), and one
\* more than for the node whose loop crawls it (line 196)
CallDepth(n) == IF n = root THEN 0 ELSE 1 + CallDepth(Creator(n))

\* node r was populated by the memoized branch: its children array is the one
\* another node's fetch created
Reused(r) == heap[r].children \notin {0, r}

HasTitle(n) == heap[n].title \notin {Undefined, ""}

\* C2 as stated: when the run completes, every node located maxDepth + 1 hops
\* below the root is an unexplored stub: no populated title, no children.
DepthBoundAsStated ==
  pc = "done" =>
    \A n \in Level(maxDepth + 1) : ~HasTitle(n) /\ Kids(n) = <<>>

\* C2 amended: a node that crawl is invoked on at depth maxDepth + 1 never gets
\* children, and it has a title only when it is a child of a node populated by
\* the memoized branch, whose back-fill wrote it.
DepthBound ==
  \A n \in Nodes :
    CallDepth(n) > maxDepth =>
      /\ CallDepth(n) = maxDepth + 1
      /\ heap[n].children = 0
      /\ heap[n].title # Undefined =>
           \E r \in Nodes : Reused(r) /\ n \in Range(Kids(r))

\* a finished run with a stub of depth maxDepth + 1 whose title was back-filled
\* below a memoized node
C2Witness ==
  /\ pc = "done"
  /\ \E n \in Nodes :
       /\ CallDepth(n) = maxDepth + 1
       /\ HasTitle(n)
       /\ \E r \in InTree : Reused(r) /\ n \in Range(Kids(r))

\* the positions in fetchOrder of the pages on which cookie name c was observed
CookieSightings(c) ==
  {i \in DOMAIN fetchOrder : \E k \in DOMAIN web[fetchOrder[i]].cookies :
                                web[fetchOrder[i]].cookies[k].name = c}

\* the positions in fetchOrder of the pages on which iframe source x was observed
IframeSightings(x) ==
  {i \in DOMAIN fetchOrder : x \in Range(web[fetchOrder[i]].iframes)}

Earliest(S) == CHOOSE i \in S : \A j \in S : i <= j

\* C3: a cookie name or iframe source is a key of its registry exactly when a
\* fetched page observed it, and its firstFound is the url of the page fetched
\* earliest among the pages that observed it.
FirstSeenWins ==
  /\ \A c \in CookieNames :
       /\ c \in DOMAIN crawledCookies <=> CookieSightings(c) # {}
       /\ c \in DOMAIN crawledCookies =>
            crawledCookies[c].firstFound = fetchOrder[Earliest(CookieSightings(c))]
  /\ \A x \in FrameSrcs :
       /\ x \in DOMAIN crawledIframes <=> IframeSightings(x) # {}
       /\ x \in DOMAIN crawledIframes =>
            crawledIframes[x].firstFound = fetchOrder[Earliest(IframeSightings(x))]

\* a finished run in which a cookie name and an iframe source were each observed
\* on more than one fetched page
C3Witness ==
  /\ pc = "done"
  /\ \E c \in CookieNames : Cardinality(CookieSightings(c)) > 1
  /\ \E x \in FrameSrcs : Cardinality(IframeSightings(x)) > 1

Places(n) == {<<p, k>> \in InTree \X (1..Len(heap)) : k \in DOMAIN Kids(p) /\ Kids(p)[k] = n}

\* C5: what hangs under the root is a tree without sharing: no node is at two
\* places, no children array belongs to two nodes, no node is below itself.
TreeWithoutSharing ==
  heap # <<>> =>
    /\ \A n \in InTree : Cardinality(Places(n)) <= 1
    /\ \A p, q \in InTree :
         p # q /\ heap[p].children # 0 => heap[p].children # heap[q].children
    /\ ~Circular(root)

\* the leaf {url, title} and the fetched page {url, title, children} in crawl.json
Leaf(u, t) == [url |-> u, title |-> t, stub |-> TRUE, kids |-> <<>>]
Page(u, kids) == [url |-> u, title |-> TitleOf(u), stub |-> FALSE, kids |-> kids]

\* the site of the scenario: a links to b and c, b to a, c to b; maximum depth 1
Scenario ==
  /\ maxDepth = 1
  /\ web["a"].links = <<"b", "c">>
  /\ web["b"].links = <<"a">>
  /\ web["c"].links = <<"b">>

\* C6 as stated: in the finished tree of the scenario, c's child b carries b's title.
ScenarioTreeAsStated ==
  pc = "done" /\ Scenario =>
    Stringify(root) =
      Page("a", <<Page("b", <<>>), Page("c", <<Leaf("b", TitleOf("b"))>>)>>)

\* C6 amended: in the finished tree of the scenario the root a has the children
\* b and c in that order, b has an empty children list, and c has one child, the
\* stub of b, with neither title nor children.
ScenarioTree ==
  pc = "done" /\ Scenario =>
    Stringify(root) =
      Page("a", <<Page("b", <<>>), Page("c", <<Leaf("b", Undefined)>>)>>)

\* the scenario has run to its end
C6Witness == pc = "done" /\ Scenario

\* the run of DEPTH=3 over a -> b -> c -> b, ended by JSON.stringify throwing
C5Cycle ==
  /\ depthEnv = "3"
  /\ web["a"].links = <<"b">>
  /\ web["b"].links = <<"c">>
  /\ web["c"].links = <<"b">>
  /\ pc = "aborted"
  /\ error.kind = "stringify"

\* C7: the runs over the same web, with the same seed and the same DEPTH, write
\* the same tree into crawl.json.
Deterministic ==
  \A i, j \in DOMAIN written : written[i].tree = written[j].tree

\* two runs have written a tree in which the root has two children and a node
\* was populated by the memoized branch
C7Witness ==
  /\ pc = "done"
  /\ Len(written) = 2
  /\ written[1].run # written[2].run
  /\ Len(written[2].tree.kids) = 2
  /\ \E r \in InTree : Reused(r)

NavigationFailed == error.kind = "goto"

NoJsonFile == \A f \in JsonFiles : files[f].state = "absent"

\* C8: once the fetch of a url has failed the run is over: that url was fetched
\* once and is no key of crawledPages, no JSON file is in the directory, and from
\* then on nothing is fetched, registered or written.
NavigationFailureFatal ==
  /\ [](NavigationFailed =>
          /\ pc = "aborted"
          /\ fetchCount[error.at] = 1
          /\ error.at \notin DOMAIN crawledPages
          /\ NoJsonFile)
  /\ [][NavigationFailed =>
          /\ fetchCount' = fetchCount
          /\ crawledPages' = crawledPages
          /\ files' = files]_vars

\* the fetch of a page other than the seed has failed, after other pages were fetched
C8Witness ==
  /\ NavigationFailed
  /\ error.at # URL
  /\ Len(fetchOrder) >= 2

\* file f holds what this run wrote in full
Fresh(f) == files[f] = [run |-> run, state |-> "full"]

\* the position of a JSON file in the order of lines 224-226
WriteOrder(f) ==
  CASE f = "crawl.json" -> 1
    [] f = "cookies.json" -> 2
    [] f = "iframes.json" -> 3

\* C9 as stated: a completed run has written the three JSON files, and a run
\* aborted by a navigation failure, by the serialization of the tree or by a
\* failed write leaves no JSON file.
AllOrNothingAsStated ==
  /\ pc = "done" => \A f \in JsonFiles : Fresh(f)
  /\ pc = "aborted" /\ error.kind \in {"goto", "stringify", "write"} => NoJsonFile

\* C9 amended: a completed run has written the three JSON files; a run aborted
\* by a navigation failure or by the serialization of the tree leaves no JSON
\* file; a run aborted by a failed write leaves the JSON files written before
\* it, in full, at most a partial file of the failed write, and no later file.
OutputOnAbort ==
  /\ pc = "done" => \A f \in JsonFiles : Fresh(f)
  /\ pc = "aborted" /\ error.kind \in {"goto", "stringify"} => NoJsonFile
  /\ pc = "aborted" /\ error.kind = "write" =>
       \A f \in JsonFiles :
         /\ WriteOrder(f) < WriteOrder(error.at) => Fresh(f)
         /\ WriteOrder(f) = WriteOrder(error.at) =>
              files[f] \in {Absent, [run |-> run, state |-> "partial"]}
         /\ WriteOrder(f) > WriteOrder(error.at) => files[f] = Absent

\* the write of iframes.json failed and left a partial file beside the two
\* files written before it
C9Witness ==
  /\ pc = "aborted"
  /\ error = [kind |-> "write", at |-> "iframes.json"]
  /\ files["iframes.json"].state = "partial"
  /\ Fresh("crawl.json") /\ Fresh("cookies.json")

\* this run has put something into file f
WrittenNow(f) == files[f].state # "absent" /\ files[f].run = run

\* the traversal has returned to main
Traversed ==
  \/ pc \in JsonFiles \cup {"close", "done"}
  \/ pc = "aborted" /\ error.kind \in {"stringify", "write", "close"}

\* line 203 has run
Emptied ==
  \/ pc \notin {"mkdir", "del", "aborted"}
  \/ pc = "aborted" /\ error.kind \notin {"mkdir", "del"}

\* C10: a file is written only after the directory was created and emptied and
\* the traversal has returned; once the directory was emptied nothing of an
\* earlier run is in it; after a completed run it holds the three files this
\* run wrote and nothing else.
OutputOrdering ==
  /\ \A f \in FileNames : WrittenNow(f) => dirExists /\ Emptied /\ Traversed /\ stack = <<>>
  /\ Emptied => \A f \in FileNames : files[f].state # "absent" => files[f].run = run
  /\ pc = "done" =>
       \A f \in FileNames : IF f \in JsonFiles THEN Fresh(f) ELSE files[f] = Absent

\* a second run has completed in the directory in which the first run had left
\* its crawl.json
C10Witness ==
  /\ run = 2
  /\ pc = "done"
  /\ Len(written) = 2
  /\ \A f \in JsonFiles : Fresh(f)
  /\ files["other"] = Absent

\* process.env.DEPTH is text that is no number, or a negative number
InvalidDepth == depthEnv \in {"abc", "-1"}

\* C11: with an invalid DEPTH the run performs no fetch and does not complete:
\* it ends with an error instead of crawling with a substituted or unusable depth.
ConfigErrorSurfaced ==
  InvalidDepth =>
    /\ \A u \in Urls : fetchCount[u] = 0
    /\ pc # "done"

RECURSIVE Within(_)
\* the urls at most k link hops from the seed, over the links of the pages as
\* the browser returned them and line 166 filtered them
Within(k) ==
  IF k < 0 THEN {}
  ELSE IF k = 0 THEN {URL}
  ELSE Within(k - 1) \cup UNION {Range(FilterSeed(web[u].links)) : u \in Within(k - 1)}

\* C12: when the run has completed, every url at most maxDepth link hops from
\* the seed was fetched and is a key of crawledPages.
CompleteWithinDepth ==
  pc = "done" =>
    \A u \in Within(maxDepth) : u \in DOMAIN crawledPages /\ fetchCount[u] = 1

\* the active calls of crawl that are at the given place
FramesAt(at) == {k \in DOMAIN stack : stack[k].at = at}

\* the fetch of node n has written all it writes into the three registries
Registered(n) ==
  LET u == heap[n].url
  IN /\ u \in DOMAIN crawledPages
     /\ crawledPages[u] = n
     /\ u \in Range(fetchOrder)
     /\ Range(web[u].iframes) \subseteq DOMAIN crawledIframes
     /\ \A k \in DOMAIN web[u].cookies : web[u].cookies[k].name \in DOMAIN crawledCookies

\* One call of crawl runs at a time: only the innermost call can be entering or
\* fetching, every outer call waits in its loop for the child it has invoked,
\* and a call is in its loop only with its registry writes done.
OneAtATime ==
  /\ Cardinality(FramesAt("goto")) <= 1
  /\ \A k \in DOMAIN stack : k < Len(stack) => stack[k].at = "loop"
  /\ \A k \in FramesAt("loop") : Registered(stack[k].node)
  /\ \A k \in DOMAIN stack : stack[k].at # "loop" => Kids(stack[k].node) = <<>>
  /\ \A k \in 1..(Len(stack) - 1) :
       /\ stack[k + 1].node = Kids(stack[k].node)[stack[k].i - 1]
       /\ stack[k + 1].depth = stack[k].depth + 1

\* A call moves on in its children list only by one, from the child at i to the
\* child at i + 1, only when it is the innermost call (the call on the child
\* before has returned), and by invoking crawl on the child at i.
OneChildAfterTheOther ==
  \A k \in DOMAIN stack \cap DOMAIN stack' :
    stack'[k].i # stack[k].i =>
      /\ k = Len(stack)
      /\ stack[k].at = "loop"
      /\ stack'[k] = [stack[k] EXCEPT !.i = @ + 1]
      /\ Len(stack') = k + 1
      /\ stack'[k + 1].node = Kids(stack[k].node)[stack[k].i]
      /\ stack'[k + 1].at = "enter"

\* C13: the traversal is sequential, depth-first and in pre-order: at most one
\* fetch is in flight; the registry writes of a fetched node are done before
\* crawl is invoked on a child of it; the children are crawled in the order of
\* the children list, and the crawl of a child has returned, with all calls
\* below it, before the crawl of the next child starts.
SequentialPreOrder == []OneAtATime /\ [][OneChildAfterTheOther]_vars

\* the second child of a page is being fetched after the crawl of the first
\* child fetched pages below it
C13Witness ==
  /\ Len(stack) = 2
  /\ stack[1].i = 3
  /\ stack[2].at = "goto"
  /\ Len(fetchOrder) >= 3
  /\ Kids(Kids(root)[1]) # <<>>

\* In heap h node r is what the memoized branch makes of it: it has the title
\* of the registry entry of its url, each of its children has the title of the
\* registry entry of its own url when there is one, and no child has children.
Shallow(h, r) ==
  /\ h[r].title = h[crawledPages[h[r].url]].title
  /\ \A k \in DOMAIN arrs[h[r].children] :
       LET c == arrs[h[r].children][k]
       IN /\ h[c].url \in DOMAIN crawledPages =>
               h[c].title = h[crawledPages[h[c].url]].title
          /\ h[c].children = 0 \/ arrs[h[c].children] = <<>>

\* C14: the memoized branch leaves its node with the entry's title and with
\* children that have the titles known for their urls and no children of their
\* own; the children of a node it populated have no children in any later
\* state, the final tree included.
ShallowReuse ==
  /\ [][\A n \in DOMAIN heap \cap DOMAIN heap' :
          ~Reused(n) /\ heap'[n].children \notin {0, n} => Shallow(heap', n)]_vars
  /\ [](\A r \in Nodes : Reused(r) => \A k \in DOMAIN Kids(r) : Kids(Kids(r)[k]) = <<>>)

\* crawl has been invoked on a node whose url is a key of crawledPages
EnteredOnKnownUrl ==
  /\ pc = "crawl"
  /\ stack # <<>>
  /\ stack[Len(stack)].at = "enter"
  /\ heap[stack[Len(stack)].node].url \in DOMAIN crawledPages

\* C15: a call of crawl on a node whose url is already a key of crawledPages
\* returns in its next step: it fetches nothing, invokes crawl on no child and
\* adds no key to crawledPages, crawledCookies or crawledIframes.
NoReDescent ==
  [][EnteredOnKnownUrl =>
       /\ stack' = SubSeq(stack, 1, Len(stack) - 1)
       /\ fetchCount' = fetchCount
       /\ fetchOrder' = fetchOrder
       /\ DOMAIN crawledPages' = DOMAIN crawledPages
       /\ DOMAIN crawledCookies' = DOMAIN crawledCookies
       /\ DOMAIN crawledIframes' = DOMAIN crawledIframes]_vars

\* a finished run in which a node populated by the memoized branch has a child
\* whose url was never fetched
C15Witness ==
  /\ pc = "done"
  /\ \E r \in InTree :
       /\ Reused(r)
       /\ \E k \in DOMAIN Kids(r) : fetchCount[heap[Kids(r)[k]].url] = 0

\* crawl has been invoked with a depth greater than maxDepth
EnteredPastMaxDepth ==
  /\ pc = "crawl"
  /\ stack # <<>>
  /\ stack[Len(stack)].at = "enter"
  /\ stack[Len(stack)].depth > maxDepth

\* the position of url u in fetchOrder
FetchedAt(u) == CHOOSE i \in DOMAIN fetchOrder : fetchOrder[i] = u

\* C16: a call of crawl with a depth greater than maxDepth returns in its next
\* step and changes nothing: not the node (nor any other node), not
\* crawledPages, crawledCookies or crawledIframes, and nothing is fetched, also
\* when the url of the node is a key of crawledPages.
HardStop ==
  [][EnteredPastMaxDepth =>
       /\ stack' = SubSeq(stack, 1, Len(stack) - 1)
       /\ heap' = heap
       /\ arrs' = arrs
       /\ crawledPages' = crawledPages
       /\ crawledCookies' = crawledCookies
       /\ crawledIframes' = crawledIframes
       /\ fetchCount' = fetchCount
       /\ fetchOrder' = fetchOrder]_vars

\* a finished run with a node cut off at depth maxDepth + 1 that is still
\* {url}, its url having been a key of crawledPages before its parent was fetched
C16Witness ==
  /\ pc = "done"
  /\ \E n \in InTree \ {root} :
       /\ CallDepth(n) = maxDepth + 1
       /\ heap[n] = Stub(heap[n].url)
       /\ heap[n].url \in Range(fetchOrder)
       /\ FetchedAt(heap[n].url) < FetchedAt(heap[Creator(n)].url)

\* every key of map m is a key of map m1, with the same value
Kept(m, m1) == \A k \in DOMAIN m : k \in DOMAIN m1 /\ m1[k] = m[k]

\* the registries before crawl is invoked, and the keys of crawledPages
RegistryKeys ==
  /\ pc \in {"mkdir", "del", "launch", "root"} =>
       crawledPages = EmptyMap /\ crawledCookies = EmptyMap /\ crawledIframes = EmptyMap
  /\ DOMAIN crawledPages = Range(fetchOrder)
  /\ \A u \in DOMAIN crawledPages : heap[crawledPages[u]].url = u

\* C17: the three registries are empty when the run starts; a key, once in a
\* registry, stays with the value it was inserted with, whatever a later page
\* shows for it; the keys of crawledPages are the urls whose fetch has completed.
WriteOnce ==
  /\ []RegistryKeys
  /\ [][/\ Kept(crawledPages, crawledPages')
        /\ Kept(crawledCookies, crawledCookies')
        /\ Kept(crawledIframes, crawledIframes')]_vars

\* a finished run in which a cookie was seen again with another value and an
\* iframe again on another page than the one recorded
C17Witness ==
  /\ pc = "done"
  /\ \E c \in DOMAIN crawledCookies : \E i \in CookieSightings(c) :
       CookieValue(fetchOrder[i]) # crawledCookies[c].value
  /\ \E x \in DOMAIN crawledIframes : \E i \in IframeSightings(x) :
       fetchOrder[i] # crawledIframes[x].firstFound

\* the calls of crawl are at most maxDepth + 2 deep, the k-th of them invoked
\* with depth k - 1
RecursionBound ==
  /\ Len(stack) <= maxDepth + 2
  /\ \A k \in DOMAIN stack : stack[k].depth = k - 1 /\ stack[k].depth <= maxDepth + 1

\* C18: when nothing outside the program fails, the traversal returns to main
\* in the end, on every link graph; the active calls of crawl are never more
\* than maxDepth + 2 and crawl is never invoked with a depth above maxDepth + 1.
Termination == <>Traversed /\ []RecursionBound

\* maxDepth + 2 calls of crawl are active on a site where b and c link to each other
C18Witness ==
  /\ maxDepth = 2
  /\ Len(stack) = maxDepth + 2
  /\ "c" \in Range(web["b"].links)
  /\ "b" \in Range(web["c"].links)

\* C19: when DEPTH is set to a number d from 0 on, crawl fetches and reuses only
\* in calls of depth at most d; with DEPTH=0 only the seed is fetched and every
\* other node stays {url}.
DepthHonoured ==
  /\ \A d \in 0..MaxDepthEnv :
       depthEnv = ToString(d) =>
         \A k \in DOMAIN stack : stack[k].at # "enter" => stack[k].depth <= d
  /\ depthEnv = "0" =>
       /\ \A u \in Urls \ {URL} : fetchCount[u] = 0
       /\ \A n \in Nodes \ {root} : heap[n] = Stub(heap[n].url)
====
